---- MODULE Spec2Model ----
(***************************************************************************)
(* The /query-ai route of the ai-chatbot service                            *)
(* (src/backend/services/ai-chatbot/app.py): one request handled by        *)
(* query_ai and call_external_service.  The handler is cut at its          *)
(* blocking external calls (identity provider, inference service,          *)
(* gateway): an action is the return of one call together with all the     *)
(* code that runs until the next call is issued or the response is sent.   *)
(***************************************************************************)
EXTENDS Integers, Sequences, FiniteSets, TLC

VARIABLES
  pc,        \* where query_ai is blocked: "idle", "verify_id_token", "intent", "gateway", "synthesis", "done"
  data,      \* request.json
  msg,       \* response.choices[0].message of the intent-resolution call
  idx,       \* position of tool_call in msg.tool_calls (0 outside the loop)
  fn_name,   \* local fn_name of query_ai
  fn_args,   \* local fn_args of query_ai
  replies,   \* local replies of query_ai
  frame,     \* arguments of the call_external_service activation in progress
  response,  \* the (body, status) pair returned by query_ai
  calls,     \* log: every outbound call, in the order issued
  returns,   \* log: the outcome of every outbound call that has returned
  segments,  \* log: the value of `reply` at the end of each loop iteration
  saved      \* the locals and logs of the other activation of query_ai in the process

vars ==
  <<pc, data, msg, idx, fn_name, fn_args, replies, frame, response, calls, returns, segments,
    saved>>

-----------------------------------------------------------------------------
(* Python values.  A value carries its type so that None, a string and a    *)
(* dict can be compared with each other.                                    *)

None ==
  [t |-> "None"]

Unbound ==
  [t |-> "unbound"]

Str(s) ==
  [t |-> "str", v |-> s]

Dict(kv) ==
  [t |-> "dict", v |-> kv]

\* Python truthiness of an Optional[str]: None and the empty string are falsy.
Truthy(x) ==
  x.t = "str" /\ Len(x.v) > 0

-----------------------------------------------------------------------------
(* Bounds and input domains.                                                *)

\* longest msg.tool_calls list the inference service returns
MaxCalls ==
  2

\* user messages, as sequences of characters
\* "list my team members"
MsgListMembers ==
  <<"l","i","s","t"," ","m","y"," ","t","e","a","m"," ","m","e","m","b","e","r","s">>
\* "show me all fixtures and products"
MsgFixturesProducts ==
  <<"s","h","o","w"," ","m","e"," ","a","l","l"," ","f","i","x","t","u","r","e","s"," ","a","n","d"," ","p","r","o","d","u","c","t","s">>
\* "Products and FIXTURES"
MsgProductsFixtures ==
  <<"P","r","o","d","u","c","t","s"," ","a","n","d"," ","F","I","X","T","U","R","E","S">>
\* "please delete last week's fixture"
MsgDeleteFixture ==
  <<"p","l","e","a","s","e"," ","d","e","l","e","t","e"," ","l","a","s","t"," ","w","e","e","k","'","s"," ","f","i","x","t","u","r","e">>
\* "merchandise payments"
MsgMerchandisePayments ==
  <<"m","e","r","c","h","a","n","d","i","s","e"," ","p","a","y","m","e","n","t","s">>
\* "Transactions for Players"
MsgTransactionsPlayers ==
  <<"T","r","a","n","s","a","c","t","i","o","n","s"," ","f","o","r"," ","P","l","a","y","e","r","s">>
\* "payments"
MsgPayments ==
  <<"p","a","y","m","e","n","t","s">>
Kw_players ==
  <<"p","l","a","y","e","r","s">>
Kw_members ==
  <<"m","e","m","b","e","r","s">>
Kw_fixtures ==
  <<"f","i","x","t","u","r","e","s">>
Kw_products ==
  <<"p","r","o","d","u","c","t","s">>
Kw_merchandise ==
  <<"m","e","r","c","h","a","n","d","i","s","e">>
Kw_transactions ==
  <<"t","r","a","n","s","a","c","t","i","o","n","s">>
Kw_payments ==
  <<"p","a","y","m","e","n","t","s">>

Messages ==
  {MsgListMembers, MsgFixturesProducts, MsgProductsFixtures, MsgDeleteFixture,
   MsgMerchandisePayments, MsgTransactionsPlayers, MsgPayments}

Tokens ==
  {"tok-1", "tok-2"}

Emails ==
  {"a@x.com", "b@x.com"}

\* request.json: None for a body that is not a JSON object, otherwise the
\* three fields query_ai requires; a missing key reads as None (dict.get).
Bodies ==
  {None} \cup
  { [t |-> "dict", message |-> m, token |-> k, email |-> e] :
      m \in {Str(x) : x \in Messages} \cup {None, Str(<<>>)},
      k \in {Str(x) : x \in Tokens} \cup {None, Str("")},
      e \in {Str("b@x.com"), None, Str("")} }

\* auth.verify_id_token: raises, or returns the decoded claims
VerifyOutcomes ==
  {[t |-> "raise", e |-> "InvalidIdTokenError"]} \cup
  { [t |-> "decoded", email |-> e] : e \in {Str(x) : x \in Emails} \cup {None} }

\* raw tool_call.function.arguments strings
GoodArgs ==
  "{\"month\": \"2025-03\"}"

BadArgs ==
  "{month: "

ArgStrings ==
  {GoodArgs, BadArgs}

\* a capability name the catalog does not contain
UnknownName ==
  "deleteFixture"

-----------------------------------------------------------------------------
(* The capability catalog and the dispatch chain.                           *)

\* the function names of TOOLS, in catalog order
TOOLS ==
  <<"getPlayers", "listTeamMembers", "searchClubs", "getFixturesByMonth",
    "getAllFixtures", "getTrainingsByMonth", "getLineups", "getEvents",
    "getResult", "getPlayerRating", "getRides", "listProducts",
    "listTransactions", "getPlayerStats", "searchPlayersByName",
    "listAllPlayerStats">>

ToolNames ==
  {TOOLS[i] : i \in 1..Len(TOOLS)}

\* mutant: the chain has no branch for the last capability of the catalog
Dispatched_Missing ==
  {"getPlayers", "listTeamMembers", "searchClubs", "getFixturesByMonth",
   "getAllFixtures", "getTrainingsByMonth", "getLineups", "getEvents",
   "getResult", "getPlayerRating", "getRides", "listProducts",
   "listTransactions", "getPlayerStats", "searchPlayersByName"}

\* the names tested by the if/elif chain of query_ai
Dispatched ==
  {"getPlayers", "listTeamMembers", "searchClubs", "getFixturesByMonth",
   "getAllFixtures", "getTrainingsByMonth", "getLineups", "getEvents",
   "getResult", "getPlayerRating", "getRides", "listProducts",
   "listTransactions", "getPlayerStats", "searchPlayersByName",
   "listAllPlayerStats"}

\* the base_url each branch of the chain passes to call_external_service
BaseUrl(fn) ==
  CASE fn = "getPlayers"          -> "/club/players"
    [] fn = "listTeamMembers"     -> "/membership/team"
    [] fn = "searchClubs"         -> "/club/search"
    [] fn = "getFixturesByMonth"  -> "/schedule/fixture"
    [] fn = "getAllFixtures"      -> "/schedule/fixtures"
    [] fn = "getTrainingsByMonth" -> "/schedule/training"
    [] fn = "getLineups"          -> "/fixture/lineups"
    [] fn = "getEvents"           -> "/fixture/events"
    [] fn = "getResult"           -> "/fixture/results"
    [] fn = "getPlayerRating"     -> "/fixture/player"
    [] fn = "getRides"            -> "/carpool/rides"
    [] fn = "listProducts"        -> "/products/list"
    [] fn = "listTransactions"    -> "/transactions/list"
    [] fn = "getPlayerStats"      -> "/stats/get"
    [] fn = "searchPlayersByName" -> "/stats/search"
    [] fn = "listAllPlayerStats"  -> "/stats/list"

\* the params each branch passes: fn_args, except the two branches that pass {}
Params(fn, args) ==
  IF fn \in {"getResult", "getPlayerRating"} THEN Dict({}) ELSE args

\* json.loads on the raw argument strings of the model
JsonLoads(s) ==
  CASE s = GoodArgs -> [ok |-> TRUE, v |-> Dict({<<"month", "2025-03">>})]
    [] OTHER        -> [ok |-> FALSE]

\* mutant: the except branch leaves fn_args without the {} default
ParseArgs_NoDefault(s) ==
  IF JsonLoads(s).ok THEN JsonLoads(s).v ELSE None

\* try: fn_args = json.loads(...)  except: fn_args = {}
ParseArgs(s) ==
  IF JsonLoads(s).ok THEN JsonLoads(s).v ELSE Dict({})

-----------------------------------------------------------------------------
(* str.lower and the `in` substring test, on sequences of characters.       *)

UpperCase ==
  <<"A","B","C","D","E","F","G","H","I","J","K","L","M",
    "N","O","P","Q","R","S","T","U","V","W","X","Y","Z">>

LowerCase ==
  <<"a","b","c","d","e","f","g","h","i","j","k","l","m",
    "n","o","p","q","r","s","t","u","v","w","x","y","z">>

LowerChar(c) ==
  IF \E i \in 1..Len(UpperCase) : UpperCase[i] = c
  THEN LowerCase[CHOOSE i \in 1..Len(UpperCase) : UpperCase[i] = c]
  ELSE c

Lower(s) ==
  [i \in 1..Len(s) |-> LowerChar(s[i])]

\* kw in s
In(kw, s) ==
  \E k \in 0..(Len(s) - Len(kw)) : SubSeq(s, k + 1, k + Len(kw)) = kw

\* mutant: the products branch is tested before the fixtures branch
ForcedFunction_ProductsFirst(m) ==
  IF In(Kw_players, Lower(m)) \/ In(Kw_members, Lower(m)) THEN "listTeamMembers"
  ELSE IF In(Kw_products, Lower(m)) \/ In(Kw_merchandise, Lower(m)) THEN "listProducts"
  ELSE IF In(Kw_fixtures, Lower(m)) THEN "getAllFixtures"
  ELSE IF In(Kw_transactions, Lower(m)) \/ In(Kw_payments, Lower(m)) THEN "listTransactions"
  ELSE ""

\* mutant: the fixtures branch tests the singular "fixture"
ForcedFunction_Singular(m) ==
  IF In(Kw_players, Lower(m)) \/ In(Kw_members, Lower(m)) THEN "listTeamMembers"
  ELSE IF In(SubSeq(Kw_fixtures, 1, Len(Kw_fixtures) - 1), Lower(m)) THEN "getAllFixtures"
  ELSE IF In(Kw_products, Lower(m)) \/ In(Kw_merchandise, Lower(m)) THEN "listProducts"
  ELSE IF In(Kw_transactions, Lower(m)) \/ In(Kw_payments, Lower(m)) THEN "listTransactions"
  ELSE ""

\* the keyword chain of the `elif not msg.tool_calls` branch: the forced
\* fn_name, or "" when the else branch is taken
ForcedFunction(m) ==
  IF In(Kw_players, Lower(m)) \/ In(Kw_members, Lower(m)) THEN "listTeamMembers"
  ELSE IF In(Kw_fixtures, Lower(m)) THEN "getAllFixtures"
  ELSE IF In(Kw_products, Lower(m)) \/ In(Kw_merchandise, Lower(m)) THEN "listProducts"
  ELSE IF In(Kw_transactions, Lower(m)) \/ In(Kw_payments, Lower(m)) THEN "listTransactions"
  ELSE ""

\* f"/{fn_name.replace('list', '').replace('get', '').lower()}" on the four
\* names the keyword chain can force
ForcedUrl(fn) ==
  CASE fn = "listTeamMembers"  -> "/teammembers"
    [] fn = "getAllFixtures"   -> "/allfixtures"
    [] fn = "listProducts"     -> "/products"
    [] fn = "listTransactions" -> "/transactions"

-----------------------------------------------------------------------------
(* Outcomes of the external collaborators.                                  *)

\* invocations the model may emit in a turn of one tool call
Invocations ==
  { [name |-> n, arguments |-> a] : n \in ToolNames \cup {UnknownName}, a \in ArgStrings }

\* names used in turns of several tool calls: a capability that receives
\* fn_args, one that receives {}, and a name outside the catalog
MultiNames ==
  {"listTeamMembers", "getResult", UnknownName}

MultiInvocations ==
  { [name |-> n, arguments |-> a] : n \in MultiNames, a \in ArgStrings }

SeqsOf(S, lo, hi) ==
  UNION { [1..n -> S] : n \in lo..hi }

ToolCallLists ==
  SeqsOf(Invocations, 1, 1) \cup SeqsOf(MultiInvocations, 2, MaxCalls)

DirectContents ==
  {Str("I can only retrieve data."), None}

\* openai_client.chat.completions.create with tools: raises, or a message with
\* tool_calls (content unused) or without (tool_calls None or empty)
IntentOutcomes ==
  {[t |-> "raise", e |-> "APIConnectionError"]} \cup
  { [t |-> "message", tool_calls |-> tc, content |-> None] : tc \in ToolCallLists } \cup
  { [t |-> "message", tool_calls |-> <<>>, content |-> c] : c \in DirectContents }

\* requests.get: raises, or a response with a status, a text and a body that
\* response.json() can or cannot decode
GatewayOutcomes ==
  { [t |-> "raise", e |-> "ConnectTimeout"],
    [t |-> "response", status_code |-> 200, text |-> "[{\"id\": 1}]", json |-> TRUE],
    [t |-> "response", status_code |-> 200, text |-> "<html>", json |-> FALSE],
    [t |-> "response", status_code |-> 503, text |-> "unavailable", json |-> FALSE],
    [t |-> "response", status_code |-> 404, text |-> "Not Found", json |-> FALSE] }

\* openai_client.chat.completions.create without tools: raises, or a message
\* whose content is a text, the empty text or None
SynthOutcomes ==
  {[t |-> "raise", e |-> "APITimeoutError"]} \cup
  { [t |-> "message", content |-> c] : c \in {Str("S1"), Str("S2"), Str(""), None} }

-----------------------------------------------------------------------------
(* query_ai and call_external_service.                                      *)

\* the locals read from request.json (never reassigned)
user_message ==
  data.message.v

id_token ==
  data.token.v

user_email ==
  data.email

Resp(status, key, value) ==
  [status |-> status, key |-> key, value |-> value]

\* if not user_message or not id_token or not user_email
MissingRequiredFields(d) ==
  ~Truthy(d.message) \/ ~Truthy(d.token) \/ ~Truthy(d.email)

\* mutant: the comparison is never made
EmailMismatch_Never(decoded, email) ==
  FALSE

\* mutant: a token without an email claim passes
EmailMismatch_IfPresent(decoded, email) ==
  decoded.email # None /\ decoded.email # email

\* if decoded.get("email") != user_email
EmailMismatch(decoded, email) ==
  decoded.email # email

\* mutant: the inner try/except is missing and the outer handler answers
InvalidTokenResponse_Outer ==
  Resp(500, "error", Str("InvalidIdTokenError"))

\* the except branch around auth.verify_id_token
InvalidTokenResponse ==
  Resp(401, "error", Str("Invalid token"))

\* SYSTEM_PROMPT.format(...) and the two messages of the first completion
IntentRequest(d) ==
  [svc |-> "inference", kind |-> "intent",
   system |-> [user_email |-> d.email.v, id_token |-> d.token.v],
   user |-> d.message.v, tools |-> TOOLS]

GatewayBase ==
  "https://grassroots-gateway-2au66zeb.nw.gateway.dev"

\* mutant: requests.post instead of requests.get
GatewayRequest_Post(base_url, params, token) ==
  [svc |-> "gateway", method |-> "POST", url |-> GatewayBase \o base_url,
   authorization |-> "Bearer " \o token, params |-> params, timeout |-> 20]

\* mutant: the token is kept in a module-level name that the request which
\* arrived last has overwritten
GatewayRequest_SharedToken(base_url, params, token) ==
  [svc |-> "gateway", method |-> "GET", url |-> GatewayBase \o base_url,
   authorization |-> "Bearer " \o (IF saved.data.t = "dict" THEN saved.data.token.v ELSE token),
   params |-> params, timeout |-> 20]

\* mutant: the service calls the gateway with a credential of its own
GatewayRequest_OwnCredential(base_url, params, token) ==
  [svc |-> "gateway", method |-> "GET", url |-> GatewayBase \o base_url,
   authorization |-> "Bearer tok-1", params |-> params, timeout |-> 20]

\* requests.get(base + base_url, headers=..., params=params, timeout=20)
GatewayRequest(base_url, params, token) ==
  [svc |-> "gateway", method |-> "GET", url |-> GatewayBase \o base_url,
   authorization |-> "Bearer " \o token, params |-> params, timeout |-> 20]

\* mutant: the replies gathered so far are passed along with the data
SynthRequest_WithHistory(name, message, text) ==
  [svc |-> "inference", kind |-> "synthesis", endpoint |-> name,
   user |-> message,
   data |-> IF Len(replies) = 0 THEN text ELSE replies[Len(replies)] \o text]

\* followup_messages of the second completion
SynthRequest(name, message, text) ==
  [svc |-> "inference", kind |-> "synthesis", endpoint |-> name,
   user |-> message, data |-> text]

\* mutant: the response text is left out
FailureText_NoBody(name, status_code, text) ==
  name \o " failed with status " \o ToString(status_code)

\* f"{fn_name} failed with status {response.status_code}: {response.text}"
FailureText(name, status_code, text) ==
  name \o " failed with status " \o ToString(status_code) \o ": " \o text

\* mutant: another wording
UnknownReply_Other ==
  "Unknown function."

UnknownReply ==
  "Unknown function call received."

\* mutant: replies.insert(0, reply)
AppendReply_Front(rs, reply) ==
  IF Truthy(reply) THEN <<reply.v>> \o rs ELSE rs

\* mutant: a reply equal to an earlier one is not appended again
AppendReply_Dedup(rs, reply) ==
  IF Truthy(reply) /\ \A k \in DOMAIN rs : rs[k] # reply.v THEN Append(rs, reply.v) ELSE rs

\* if reply: replies.append(reply)
AppendReply(rs, reply) ==
  IF Truthy(reply) THEN Append(rs, reply.v) ELSE rs

\* "\n".join(replies)
RECURSIVE Join(_)
Join(rs) ==
  IF rs = <<>> THEN ""
  ELSE IF Len(rs) = 1 THEN rs[1]
  ELSE rs[1] \o "\n" \o Join(Tail(rs))

\* The for loop over msg.tool_calls from position i on, run until a branch of
\* the chain calls call_external_service (at = "call") or the list is
\* exhausted (at = "end").  st holds the locals fn_name, fn_args, replies and
\* the segment log.
RECURSIVE ForLoop(_, _, _)
ForLoop(tcs, i, st) ==
  IF i > Len(tcs)
  THEN [at |-> "end", idx |-> 0, fn_name |-> st.fn_name, fn_args |-> st.fn_args,
        replies |-> st.replies, segments |-> st.segments]
  ELSE LET name == tcs[i].name
           args == ParseArgs(tcs[i].arguments)
       IN  IF name \in Dispatched
           THEN [at |-> "call", idx |-> i, fn_name |-> Str(name), fn_args |-> args,
                 replies |-> st.replies, segments |-> st.segments]
           ELSE ForLoop(tcs, i + 1,
                  [fn_name |-> Str(name), fn_args |-> args,
                   replies |-> AppendReply(st.replies, Str(UnknownReply)),
                   segments |-> Append(st.segments,
                                  [idx |-> i, fn_name |-> name, reply |-> Str(UnknownReply)])])

\* mutant: the exception is logged but no response is returned
Fail_NoResponse(e) ==
  /\ pc' = "raised"
  /\ UNCHANGED <<idx, fn_name, fn_args, replies, frame, response, calls, segments>>

\* mutant: inside the loop the handler answers with the replies gathered so far
Fail_Partial(e) ==
  /\ pc' = "done"
  /\ response' = IF idx > 0 THEN Resp(200, "reply", Str(Join(replies)))
                          ELSE Resp(500, "error", Str(e))
  /\ UNCHANGED <<idx, fn_name, fn_args, replies, frame, calls, segments>>

\* mutant: the first call that raises is issued once more
Fail_Retry(e) ==
  IF \A k \in DOMAIN returns : returns[k].t # "raise"
  THEN /\ pc' = pc
       /\ calls' = Append(calls, calls[Len(calls)])
       /\ UNCHANGED <<idx, fn_name, fn_args, replies, frame, response, segments>>
  ELSE /\ pc' = "done"
       /\ response' = Resp(500, "error", Str(e))
       /\ UNCHANGED <<idx, fn_name, fn_args, replies, frame, calls, segments>>

\* an uncaught exception reaches `except Exception as e` of query_ai
Fail(e) ==
  /\ pc' = "done"
  /\ response' = Resp(500, "error", Str(e))
  /\ UNCHANGED <<idx, fn_name, fn_args, replies, frame, calls, segments>>

\* mutant: after the loop the handler falls through to the keyword fallback
Resume_FallThrough(st) ==
  /\ idx' = st.idx
  /\ fn_args' = st.fn_args
  /\ replies' = st.replies
  /\ segments' = st.segments
  /\ IF st.at = "call"
     THEN /\ pc' = "gateway"
          /\ fn_name' = st.fn_name
          /\ frame' = [fn_name |-> st.fn_name.v, forced |-> FALSE]
          /\ calls' = Append(calls,
                        GatewayRequest(BaseUrl(st.fn_name.v),
                                       Params(st.fn_name.v, st.fn_args), id_token))
          /\ response' = response
     ELSE IF ForcedFunction(user_message) # ""
     THEN /\ pc' = "gateway"
          /\ fn_name' = Str(ForcedFunction(user_message))
          /\ frame' = [fn_name |-> ForcedFunction(user_message), forced |-> TRUE]
          /\ calls' = Append(calls,
                        GatewayRequest(ForcedUrl(ForcedFunction(user_message)),
                                       st.fn_args, id_token))
          /\ response' = response
     ELSE /\ pc' = "done"
          /\ fn_name' = st.fn_name
          /\ frame' = None
          /\ calls' = calls
          /\ response' = Resp(200, "reply", Str(Join(st.replies)))

\* mutant: the gateway request of an invocation is sent twice without waiting
Resume_FanOut(st) ==
  /\ idx' = st.idx
  /\ fn_name' = st.fn_name
  /\ fn_args' = st.fn_args
  /\ replies' = st.replies
  /\ segments' = st.segments
  /\ IF st.at = "call"
     THEN /\ pc' = "gateway"
          /\ frame' = [fn_name |-> st.fn_name.v, forced |-> FALSE]
          /\ calls' = calls \o
                        << GatewayRequest(BaseUrl(st.fn_name.v),
                                          Params(st.fn_name.v, st.fn_args), id_token),
                           GatewayRequest(BaseUrl(st.fn_name.v),
                                          Params(st.fn_name.v, st.fn_args), id_token) >>
          /\ response' = response
     ELSE /\ pc' = "done"
          /\ frame' = None
          /\ calls' = calls
          /\ response' = Resp(200, "reply", Str(Join(st.replies)))

\* the state in which the loop blocks or ends
Resume(st) ==
  /\ idx' = st.idx
  /\ fn_name' = st.fn_name
  /\ fn_args' = st.fn_args
  /\ replies' = st.replies
  /\ segments' = st.segments
  /\ IF st.at = "call"
     THEN /\ pc' = "gateway"
          /\ frame' = [fn_name |-> st.fn_name.v, forced |-> FALSE]
          /\ calls' = Append(calls,
                        GatewayRequest(BaseUrl(st.fn_name.v),
                                       Params(st.fn_name.v, st.fn_args), id_token))
          /\ response' = response
     ELSE /\ pc' = "done"
          /\ frame' = None
          /\ calls' = calls
          /\ response' = Resp(200, "reply", Str(Join(st.replies)))

\* call_external_service hands `reply` back to its call site in query_ai
Return(reply) ==
  IF frame.forced
  THEN /\ pc' = "done"
       /\ response' = Resp(200, "reply", reply)
       /\ frame' = None
       /\ UNCHANGED <<idx, fn_name, fn_args, replies, calls, segments>>
  ELSE Resume(ForLoop(msg.tool_calls, idx + 1,
                [fn_name |-> fn_name, fn_args |-> fn_args,
                 replies |-> AppendReply(replies, reply),
                 segments |-> Append(segments,
                                [idx |-> idx, fn_name |-> fn_name.v, reply |-> reply])]))

\* the forced call of the `elif not msg.tool_calls` branch: the argument
\* expressions are evaluated first, and reading a local that was never
\* assigned raises UnboundLocalError
ForcedCall(forced) ==
  /\ fn_name' = Str(forced)
  /\ IF fn_args = Unbound
     THEN /\ pc' = "done"
          /\ response' = Resp(500, "error", Str("UnboundLocalError: fn_args"))
          /\ UNCHANGED <<idx, fn_args, replies, frame, calls, segments>>
     ELSE /\ pc' = "gateway"
          /\ frame' = [fn_name |-> forced, forced |-> TRUE]
          /\ calls' = Append(calls, GatewayRequest(ForcedUrl(forced), fn_args, id_token))
          /\ UNCHANGED <<idx, fn_args, replies, response, segments>>

Init ==
  /\ pc = "idle"
  /\ data = None
  /\ msg = None
  /\ idx = 0
  /\ fn_name = Unbound
  /\ fn_args = Unbound
  /\ replies = Unbound
  /\ frame = None
  /\ response = None
  /\ calls = <<>>
  /\ returns = <<>>
  /\ segments = <<>>
  /\ saved = [pc |-> "idle", data |-> None, msg |-> None, idx |-> 0,
              fn_name |-> Unbound, fn_args |-> Unbound, replies |-> Unbound,
              frame |-> None, response |-> None,
              calls |-> <<>>, returns |-> <<>>, segments |-> <<>>]

\* POST /query-ai arrives: request.json, the required-field check, and the
\* call of auth.verify_id_token
Receive(body) ==
  /\ pc = "idle"
  /\ data' = body
  /\ UNCHANGED <<msg, idx, fn_name, fn_args, replies, frame, returns, segments, saved>>
  /\ IF body.t # "dict"
     THEN /\ pc' = "done"
          /\ response' = Resp(500, "error",
                              Str("'NoneType' object has no attribute 'get'"))
          /\ calls' = calls
     ELSE IF MissingRequiredFields(body)
     THEN /\ pc' = "done"
          /\ response' = Resp(400, "error", Str("Missing required fields"))
          /\ calls' = calls
     ELSE /\ pc' = "verify_id_token"
          /\ response' = response
          /\ calls' = Append(calls, [svc |-> "identity", token |-> body.token.v])

\* auth.verify_id_token returns or raises; on success the prompt is built
\* and the intent-resolution completion is requested
VerifyReturns(o) ==
  /\ pc = "verify_id_token"
  /\ returns' = Append(returns, o)
  /\ UNCHANGED <<data, msg, idx, fn_name, fn_args, replies, frame, segments, saved>>
  /\ IF o.t = "raise"
     THEN /\ pc' = "done"
          /\ response' = InvalidTokenResponse
          /\ calls' = calls
     ELSE IF EmailMismatch(o, user_email)
     THEN /\ pc' = "done"
          /\ response' = Resp(403, "error", Str("Email mismatch"))
          /\ calls' = calls
     ELSE /\ pc' = "intent"
          /\ response' = response
          /\ calls' = Append(calls, IntentRequest(data))

\* the first completion returns or raises; then the tool-call loop or the
\* keyword fallback runs up to its first gateway call or to the response
IntentReturns(o) ==
  /\ pc = "intent"
  /\ returns' = Append(returns, o)
  /\ UNCHANGED <<data, saved>>
  /\ IF o.t = "raise"
     THEN Fail(o.e) /\ msg' = msg
     ELSE /\ msg' = o
          /\ IF o.tool_calls # <<>>
             THEN Resume(ForLoop(o.tool_calls, 1,
                           [fn_name |-> fn_name, fn_args |-> fn_args,
                            replies |-> <<>>, segments |-> segments]))
             ELSE IF ForcedFunction(user_message) # ""
             THEN ForcedCall(ForcedFunction(user_message))
             ELSE /\ pc' = "done"
                  /\ response' = Resp(200, "reply", o.content)
                  /\ UNCHANGED <<idx, fn_name, fn_args, replies, frame, calls, segments>>

\* mutant: every status below 500 is treated like 200
GatewayReturns_Below500(o) ==
  /\ pc = "gateway"
  /\ returns' = Append(returns, o)
  /\ UNCHANGED <<data, msg, saved>>
  /\ IF o.t = "raise"
     THEN Fail(o.e)
     ELSE IF o.status_code < 500
     THEN IF o.json \/ o.status_code # 200
          THEN /\ pc' = "synthesis"
               /\ calls' = Append(calls, SynthRequest(frame.fn_name, user_message, o.text))
               /\ UNCHANGED <<idx, fn_name, fn_args, replies, frame, response, segments>>
          ELSE Fail("JSONDecodeError")
     ELSE Return(Str(FailureText(frame.fn_name, o.status_code, o.text)))

\* mutant: a 200 body that is not JSON is reported like a failed call
GatewayReturns_DecodeErrorEmbedded(o) ==
  /\ pc = "gateway"
  /\ returns' = Append(returns, o)
  /\ UNCHANGED <<data, msg, saved>>
  /\ IF o.t = "raise"
     THEN Fail(o.e)
     ELSE IF o.status_code = 200 /\ o.json
     THEN /\ pc' = "synthesis"
          /\ calls' = Append(calls, SynthRequest(frame.fn_name, user_message, o.text))
          /\ UNCHANGED <<idx, fn_name, fn_args, replies, frame, response, segments>>
     ELSE Return(Str(FailureText(frame.fn_name, o.status_code, o.text)))

\* requests.get returns or raises inside call_external_service
GatewayReturns(o) ==
  /\ pc = "gateway"
  /\ returns' = Append(returns, o)
  /\ UNCHANGED <<data, msg, saved>>
  /\ IF o.t = "raise"
     THEN Fail(o.e)
     ELSE IF o.status_code = 200
     THEN IF o.json
          THEN /\ pc' = "synthesis"
               /\ calls' = Append(calls, SynthRequest(frame.fn_name, user_message, o.text))
               /\ UNCHANGED <<idx, fn_name, fn_args, replies, frame, response, segments>>
          ELSE Fail("JSONDecodeError")
     ELSE Return(Str(FailureText(frame.fn_name, o.status_code, o.text)))

\* mutant: a failed second completion becomes the text of the segment
SynthReturns_Swallow(o) ==
  /\ pc = "synthesis"
  /\ returns' = Append(returns, o)
  /\ UNCHANGED <<data, msg, saved>>
  /\ IF o.t = "raise"
     THEN Return(Str(frame.fn_name \o " failed: " \o o.e))
     ELSE Return(o.content)

\* the second completion returns or raises inside call_external_service
SynthReturns(o) ==
  /\ pc = "synthesis"
  /\ returns' = Append(returns, o)
  /\ UNCHANGED <<data, msg, saved>>
  /\ IF o.t = "raise"
     THEN Fail(o.e)
     ELSE Return(o.content)

\* the locals of the activation of query_ai that is running, and its logs
Locals ==
  [pc |-> pc, data |-> data, msg |-> msg, idx |-> idx,
   fn_name |-> fn_name, fn_args |-> fn_args, replies |-> replies,
   frame |-> frame, response |-> response,
   calls |-> calls, returns |-> returns, segments |-> segments]

\* the process turns from one request to the other: every name query_ai and
\* call_external_service assign is a local of the activation (`request` is
\* bound to the activation as well), the module-level names are only read
Switch ==
  /\ saved' = Locals
  /\ pc' = saved.pc
  /\ data' = saved.data
  /\ msg' = saved.msg
  /\ idx' = saved.idx
  /\ fn_name' = saved.fn_name
  /\ fn_args' = saved.fn_args
  /\ replies' = saved.replies
  /\ frame' = saved.frame
  /\ response' = saved.response
  /\ calls' = saved.calls
  /\ returns' = saved.returns
  /\ segments' = saved.segments

Next ==
  \/ \E body \in Bodies : Receive(body)
  \/ \E o \in VerifyOutcomes : VerifyReturns(o)
  \/ \E o \in IntentOutcomes : IntentReturns(o)
  \/ \E o \in GatewayOutcomes : GatewayReturns(o)
  \/ \E o \in SynthOutcomes : SynthReturns(o)

Spec ==
  Init /\ [][Next]_vars

\* two requests of different callers
ConcBodies ==
  { [t |-> "dict", message |-> Str(MsgListMembers), token |-> Str("tok-1"),
     email |-> Str("b@x.com")],
    [t |-> "dict", message |-> Str(MsgDeleteFixture), token |-> Str("tok-2"),
     email |-> Str("a@x.com")] }

\* outcomes of the first completion while two requests are in progress
ConcIntentOutcomes ==
  { [t |-> "raise", e |-> "APIConnectionError"],
    [t |-> "message", tool_calls |-> <<>>, content |-> Str("I can only retrieve data.")],
    [t |-> "message", content |-> None,
     tool_calls |-> << [name |-> "listTeamMembers", arguments |-> GoodArgs] >>],
    [t |-> "message", content |-> None,
     tool_calls |-> << [name |-> "getResult", arguments |-> GoodArgs],
                       [name |-> "getPlayers", arguments |-> BadArgs] >>],
    [t |-> "message", content |-> None,
     tool_calls |-> << [name |-> UnknownName, arguments |-> GoodArgs],
                       [name |-> "listProducts", arguments |-> GoodArgs] >>] }

\* two requests handled by the process at the same time, their steps
\* interleaved in any order
ConcNext ==
  \/ \E body \in ConcBodies : Receive(body)
  \/ \E o \in VerifyOutcomes : VerifyReturns(o)
  \/ \E o \in ConcIntentOutcomes : IntentReturns(o)
  \/ \E o \in GatewayOutcomes : GatewayReturns(o)
  \/ \E o \in SynthOutcomes : SynthReturns(o)
  \/ Switch

ConcSpec ==
  Init /\ [][ConcNext]_vars

-----------------------------------------------------------------------------
(* Properties.  returns[1] is the outcome of auth.verify_id_token and       *)
(* returns[2] the outcome of the intent-resolution completion; the later    *)
(* entries are gateway and synthesis outcomes in the order they occurred.   *)

CapabilityCalls ==
  {i \in DOMAIN calls : calls[i].svc \in {"gateway", "inference"}}

GatewayCalls ==
  SelectSeq(calls, LAMBDA c : c.svc = "gateway")

SynthesisCalls ==
  SelectSeq(calls, LAMBDA c : c.svc = "inference" /\ c.kind = "synthesis")

\* the model returned one or more invocations
ToolTurn ==
  msg.t = "message" /\ msg.tool_calls # <<>>

\* the model returned no invocation
DirectTurn ==
  msg.t = "message" /\ msg.tool_calls = <<>>

Done200 ==
  pc = "done" /\ response.status = 200

\* C1: when the email decoded from the token differs from the body email,
\* the response is 403 {"error": "Email mismatch"} and neither the inference
\* service nor the gateway is called.
C1_EmailMismatch403 ==
  (Len(returns) >= 1 /\ returns[1].t = "decoded" /\ returns[1].email # data.email)
    => /\ pc = "done"
       /\ response = Resp(403, "error", Str("Email mismatch"))
       /\ CapabilityCalls = {}

C1_Witness ==
  /\ Len(returns) >= 1
  /\ returns[1].t = "decoded"
  /\ returns[1].email = Str("a@x.com")
  /\ data.email = Str("b@x.com")
  /\ response = Resp(403, "error", Str("Email mismatch"))

\* C2: when token verification raises, the response is
\* 401 {"error": "Invalid token"} and neither the inference service nor the
\* gateway is called.
C2_InvalidToken401 ==
  (Len(returns) >= 1 /\ returns[1].t = "raise")
    => /\ pc = "done"
       /\ response = Resp(401, "error", Str("Invalid token"))
       /\ CapabilityCalls = {}

C2_Witness ==
  /\ Len(returns) >= 1
  /\ returns[1].t = "raise"
  /\ ~MissingRequiredFields(data)
  /\ response.status = 401

\* C3: a request in which message, token or email is absent is answered
\* 400 {"error": "Missing required fields"} and no collaborator is called.
C3_MissingFields400 ==
  (pc # "idle" /\ (data.t # "dict" \/ data.message = None \/ data.token = None
                     \/ data.email = None))
    => /\ response = Resp(400, "error", Str("Missing required fields"))
       /\ calls = <<>>

\* C4: every inference or gateway call is preceded by a verification of the
\* request's token that returned the claimed email.
C4_VerifiedBeforeCapability ==
  \A i \in CapabilityCalls :
    /\ i > 1
    /\ calls[1] = [svc |-> "identity", token |-> id_token]
    /\ Len(returns) >= 1
    /\ returns[1].t = "decoded"
    /\ returns[1].email = user_email

C4_Witness ==
  /\ Len(GatewayCalls) >= 1
  /\ Len(SynthesisCalls) >= 1
  /\ returns[1].email = Str("b@x.com")

\* C5: every request sent to the gateway uses the GET method.
C5_GatewayGetOnly ==
  \A i \in DOMAIN calls :
    calls[i].svc = "gateway"
      => calls[i].method = "GET" /\ calls[i].method \notin {"POST", "PUT", "PATCH", "DELETE"}

C5_Witness ==
  /\ Len(GatewayCalls) = 2
  /\ GatewayCalls[1].url = GatewayBase \o "/fixture/results"
  /\ GatewayCalls[2].url = GatewayBase \o "/membership/team"

\* The segment each invocation of the turn stands for, in emitted order, as
\* the outcomes rets of the turn's gateway and synthesis calls determine it.
RECURSIVE SegmentsOf(_, _)
SegmentsOf(tcs, rets) ==
  IF tcs = <<>> THEN <<>>
  ELSE IF Head(tcs).name \notin ToolNames
  THEN <<Str("Unknown function call received.")>> \o SegmentsOf(Tail(tcs), rets)
  ELSE IF rets[1].status_code # 200
  THEN <<Str(Head(tcs).name \o " failed with status " \o ToString(rets[1].status_code)
               \o ": " \o rets[1].text)>>
       \o SegmentsOf(Tail(tcs), Tail(rets))
  ELSE <<rets[2].content>> \o SegmentsOf(Tail(tcs), Tail(Tail(rets)))

TurnSegments ==
  SegmentsOf(msg.tool_calls, SubSeq(returns, 3, Len(returns)))

RECURSIVE Texts(_)
Texts(segs) ==
  IF segs = <<>> THEN <<>> ELSE <<Head(segs).v>> \o Texts(Tail(segs))

\* C6 as stated: a 200 reply of a turn with invocations is all the
\* per-invocation segments joined with "\n" in emitted order.
C6_AllSegmentsJoined ==
  (Done200 /\ ToolTurn /\ \A k \in DOMAIN TurnSegments : TurnSegments[k].t = "str")
    => response = Resp(200, "reply", Str(Join(Texts(TurnSegments))))

\* C6, amended: a 200 reply of a turn with invocations is the non-empty
\* per-invocation segments joined with "\n" in emitted order.
C6_NonEmptySegmentsJoined ==
  (Done200 /\ ToolTurn)
    => response = Resp(200, "reply", Str(Join(Texts(SelectSeq(TurnSegments, Truthy)))))

C6_Witness ==
  /\ Done200
  /\ ToolTurn
  /\ Len(msg.tool_calls) = 2
  /\ msg.tool_calls[1].name = "getResult"
  /\ msg.tool_calls[2].name = "listTeamMembers"
  /\ TurnSegments = <<Str("S1"), Str("S2")>>
  /\ response.value = Str("S1\nS2")

\* C7: a non-200 gateway answer (c, b) for invocation B makes B's segment
\* exactly "B failed with status c: b", leaves the segments already produced
\* as they are, triggers no synthesis call and does not fail the request; a
\* turn none of whose calls raised is answered 200.
C7_Non200Embedded ==
  /\ [][ ( /\ pc = "gateway"
           /\ ~frame.forced
           /\ Len(returns') = Len(returns) + 1
           /\ returns'[Len(returns')].t = "response"
           /\ returns'[Len(returns')].status_code # 200 )
         => LET o == returns'[Len(returns')]
                B == msg.tool_calls[idx].name
                text == B \o " failed with status " \o ToString(o.status_code)
                          \o ": " \o o.text
            IN  /\ Len(segments') > Len(segments)
                /\ SubSeq(segments', 1, Len(segments)) = segments
                /\ segments'[Len(segments) + 1] = [idx |-> idx, fn_name |-> B, reply |-> Str(text)]
                /\ Len(replies') > Len(replies)
                /\ SubSeq(replies', 1, Len(replies) + 1) = Append(replies, text)
                /\ \A i \in (DOMAIN calls') \ (DOMAIN calls) : calls'[i].svc = "gateway"
                /\ \/ pc' = "gateway"
                   \/ pc' = "done" /\ response'.status = 200 ]_vars
  /\ []( ( /\ pc = "done"
           /\ ToolTurn
           /\ \A k \in 3..Len(returns) :
                /\ returns[k].t # "raise"
                /\ returns[k].t = "response" /\ returns[k].status_code = 200 => returns[k].json )
         => response.status = 200 )

C7_Witness ==
  /\ Done200
  /\ ToolTurn
  /\ Len(segments) = 2
  /\ segments[1].reply = Str("listTeamMembers failed with status 503: unavailable")
  /\ segments[2].reply = Str("S1")
  /\ response.value = Str("listTeamMembers failed with status 503: unavailable\nS1")

\* C8: an invocation whose name is not in the catalog gets the segment
\* "Unknown function call received.", causes no gateway and no synthesis
\* call, and the other invocations are processed in emitted order.
C8_UnknownCapability ==
  ToolTurn =>
    LET tcs == msg.tool_calls
        known == SelectSeq(tcs, LAMBDA c : c.name \in ToolNames)
    IN  /\ Len(GatewayCalls) <= Len(known)
        /\ \A k \in 1..Len(GatewayCalls) :
             GatewayCalls[k].url = GatewayBase \o BaseUrl(known[k].name)
        /\ \A k \in 1..Len(SynthesisCalls) : SynthesisCalls[k].endpoint \in ToolNames
        /\ Len(SynthesisCalls) <= Len(GatewayCalls)
        /\ \A k \in 1..Len(segments) :
             /\ segments[k].idx = k
             /\ segments[k].fn_name = tcs[k].name
             /\ tcs[k].name \notin ToolNames
                  => segments[k].reply = Str("Unknown function call received.")
        /\ Done200 => Len(segments) = Len(tcs)

C8_Witness ==
  /\ Done200
  /\ ToolTurn
  /\ Len(msg.tool_calls) = 2
  /\ msg.tool_calls[1].name = UnknownName
  /\ msg.tool_calls[2].name = "listTeamMembers"
  /\ Len(GatewayCalls) = 1
  /\ response.value = Str("Unknown function call received.\nS1")

\* the keyword table of the Fallback Dispatcher, in priority order
KeywordTable ==
  << [keywords |-> {Kw_players, Kw_members},        capability |-> "listTeamMembers"],
     [keywords |-> {Kw_fixtures},                   capability |-> "getAllFixtures"],
     [keywords |-> {Kw_products, Kw_merchandise},   capability |-> "listProducts"],
     [keywords |-> {Kw_transactions, Kw_payments},  capability |-> "listTransactions"] >>

GroupMatches(g, m) ==
  \E kw \in KeywordTable[g].keywords : In(kw, Lower(m))

\* the capability of the first group of the table with a keyword in the
\* lowercased message, if any
TableChoice(m) ==
  IF \E g \in DOMAIN KeywordTable : GroupMatches(g, m)
  THEN Str(KeywordTable[CHOOSE g \in DOMAIN KeywordTable :
                          /\ GroupMatches(g, m)
                          /\ \A h \in 1..(g - 1) : ~GroupMatches(h, m)].capability)
  ELSE Unbound

\* C9: when the model returns no invocation, the forced capability is that
\* of the first keyword group in table order with a keyword in the
\* lowercased message, wherever the keywords stand in the message.
C9_FallbackPriority ==
  DirectTurn =>
    /\ fn_name = TableChoice(user_message)
    /\ user_message = MsgFixturesProducts => fn_name = Str("getAllFixtures")
    /\ user_message = MsgProductsFixtures => fn_name = Str("getAllFixtures")
    /\ user_message = MsgTransactionsPlayers => fn_name = Str("listTeamMembers")
    /\ user_message = MsgMerchandisePayments => fn_name = Str("listProducts")
    /\ user_message = MsgPayments => fn_name = Str("listTransactions")
    /\ user_message = MsgDeleteFixture => fn_name = Unbound

C9_Witness ==
  /\ DirectTurn
  /\ user_message = MsgProductsFixtures
  /\ fn_name = Str("getAllFixtures")

\* C10: for "list my team members" with no invocation from the model there
\* is exactly one gateway call, for listTeamMembers, and the request ends
\* with 200 when no call fails.
C10_ForcedInvocationAnswers ==
  (pc = "done" /\ DirectTurn /\ user_message = MsgListMembers)
    => /\ Len(GatewayCalls) = 1
       /\ ( \A k \in 3..Len(returns) :
               returns[k].t # "raise" /\ returns[k].status_code = 200 )
            => response.status = 200

\* the request carries the message "please delete last week's fixture"
DeleteRequest ==
  data.t = "dict" /\ data.message = Str(MsgDeleteFixture)

\* C11 as stated: for "please delete last week's fixture" no gateway call
\* occurs, whatever the intent-resolution call returns.
C11_NoGatewayCallOnDelete ==
  DeleteRequest => GatewayCalls = <<>>

\* C11, amended: for "please delete last week's fixture" there is no gateway
\* call when the model answers with text or names only capabilities outside
\* the catalog; every gateway call made is a GET to the route of a catalog
\* capability the model emitted.
C11_OnlyEmittedCatalogGets ==
  DeleteRequest =>
    /\ \A k \in 1..Len(GatewayCalls) :
         /\ GatewayCalls[k].method = "GET"
         /\ ToolTurn
         /\ \E i \in DOMAIN msg.tool_calls :
              /\ msg.tool_calls[i].name \in ToolNames
              /\ GatewayCalls[k].url = GatewayBase \o BaseUrl(msg.tool_calls[i].name)
    /\ (msg.t = "message" /\ \A i \in DOMAIN msg.tool_calls :
                                msg.tool_calls[i].name \notin ToolNames)
         => GatewayCalls = <<>>

C11_Witness ==
  /\ DeleteRequest
  /\ Done200
  /\ ToolTurn
  /\ msg.tool_calls[1].name = UnknownName
  /\ Len(msg.tool_calls) = 1
  /\ GatewayCalls = <<>>
  /\ response.value = Str("Unknown function call received.")

\* C12: every response is 200 with a string reply or 400, 401, 403 or 500
\* with a string error.
C12_ResponseShape ==
  pc = "done" =>
    \/ response.status = 200 /\ response.key = "reply" /\ response.value.t = "str"
    \/ response.status \in {400, 401, 403, 500} /\ response.key = "error"
         /\ response.value.t = "str"

\* Every blocking call of the handler returns or raises: the identity
\* provider, the inference service and the gateway (20 s timeout) answer.
LiveSpec ==
  /\ Init
  /\ [][Next]_vars
  /\ WF_vars(\E o \in VerifyOutcomes : VerifyReturns(o))
  /\ WF_vars(\E o \in IntentOutcomes : IntentReturns(o))
  /\ WF_vars(\E o \in GatewayOutcomes : GatewayReturns(o))
  /\ WF_vars(\E o \in SynthOutcomes : SynthReturns(o))

\* C13: every request that arrived eventually reaches a terminal state, which
\* is Done (200), Rejected (400, 401, 403) or Failed (500); a response exists
\* exactly in the terminal state and is never replaced by another.
C13_ReachesOneTerminalState ==
  /\ (pc # "idle") ~> (pc = "done")
  /\ [](pc = "done" <=> response # None)
  /\ [](pc = "done" => response.status \in {200, 400, 401, 403, 500})
  /\ [][response # None => response' = response]_vars

C13_Witness ==
  /\ pc = "done"
  /\ response.status = 500
  /\ Len(returns) = 5
  /\ Len(segments) = 1

\* C14: a network-level failure of a gateway call ends the request with
\* 500 {error: ...}; the response carries the exception text and none of the
\* segments produced for the earlier invocations, and nothing is called after.
C14_TransportFailureAborts ==
  \A k \in DOMAIN returns :
    (calls[k].svc = "gateway" /\ returns[k].t = "raise")
      => /\ pc = "done"
         /\ k = Len(returns)
         /\ Len(calls) = k
         /\ response = Resp(500, "error", Str(returns[k].e))

C14_Witness ==
  /\ pc = "done"
  /\ Len(segments) = 1
  /\ segments[1].reply = Str("S1")
  /\ replies = <<"S1">>
  /\ calls[Len(calls)].svc = "gateway"
  /\ returns[Len(returns)].t = "raise"
  /\ response = Resp(500, "error", Str("ConnectTimeout"))

\* C15: a direct answer to a message without fallback keyword is returned
\* unchanged with 200, and no gateway and no synthesis call is made.
C15_DirectAnswerUnchanged ==
  (DirectTurn /\ TableChoice(user_message) = Unbound)
    => /\ pc = "done"
       /\ response = Resp(200, "reply", msg.content)
       /\ GatewayCalls = <<>>
       /\ SynthesisCalls = <<>>
       /\ Len(calls) = 2

C15_Witness ==
  /\ DirectTurn
  /\ user_message = MsgDeleteFixture
  /\ response = Resp(200, "reply", Str("I can only retrieve data."))

\* C16: when the model returns one or more invocations the keyword fallback
\* does not run: no forced call is made and every gateway call belongs to an
\* emitted invocation, whatever keywords the message contains; with zero
\* invocations the tool-call loop is not entered.
C16_FallbackOnlyOnDirectAnswer ==
  /\ ToolTurn =>
       LET tcs == msg.tool_calls
           known == SelectSeq(tcs, LAMBDA c : c.name \in ToolNames)
       IN  /\ frame # None => ~frame.forced
           /\ \E i \in DOMAIN tcs : fn_name = Str(tcs[i].name)
           /\ Len(GatewayCalls) <= Len(known)
           /\ \A k \in 1..Len(GatewayCalls) :
                GatewayCalls[k].url = GatewayBase \o BaseUrl(known[k].name)
           /\ Len(segments) <= Len(tcs)
  /\ DirectTurn =>
       /\ pc = "done"
       /\ replies = Unbound
       /\ segments = <<>>

C16_Witness ==
  /\ ToolTurn
  /\ Done200
  /\ user_message = MsgFixturesProducts
  /\ Len(msg.tool_calls) = 1
  /\ msg.tool_calls[1].name = "getResult"
  /\ Len(GatewayCalls) = 1
  /\ response.value = Str("S1")

\* C17: a keyword-forced invocation issues exactly one gateway GET, to the
\* route the dispatch chain uses for the same capability.
C17_ForcedRouteIsCatalogRoute ==
  (pc = "done" /\ DirectTurn /\ fn_name # Unbound)
    => /\ Len(GatewayCalls) = 1
       /\ GatewayCalls[1].method = "GET"
       /\ GatewayCalls[1].url = GatewayBase \o BaseUrl(fn_name.v)
       /\ ForcedUrl(fn_name.v) = BaseUrl(fn_name.v)

\* what the raw argument string of an invocation parses to, {} when it does
\* not parse
ExpectedArgs(s) ==
  IF s = GoodArgs THEN Dict({<<"month", "2025-03">>}) ELSE Dict({})

\* the invocations of the turn that name a catalog capability, in order
KnownCalls ==
  SelectSeq(msg.tool_calls, LAMBDA c : c.name \in ToolNames)

C19_ParamsAreParsedArgs ==
  ToolTurn =>
    \A k \in 1..Len(GatewayCalls) :
      /\ GatewayCalls[k].params = ExpectedArgs(KnownCalls[k].arguments)
      /\ GatewayCalls[k].authorization = "Bearer " \o id_token

\* a call is the synthesis completion
IsSynthesis(c) ==
  c.svc = "inference" /\ c.kind = "synthesis"

\* C20 as stated: a synthesis call follows a gateway call exactly when the
\* gateway answered 200.
C20_SynthesisIff200 ==
  /\ \A k \in DOMAIN returns :
       (calls[k].svc = "gateway" /\ returns[k].t = "response")
         => (returns[k].status_code = 200
               <=> (Len(calls) > k /\ IsSynthesis(calls[k + 1])))
  /\ \A j \in DOMAIN calls :
       IsSynthesis(calls[j])
         => /\ j > 1
            /\ calls[j - 1].svc = "gateway"
            /\ returns[j - 1].t = "response"
            /\ returns[j - 1].status_code = 200

\* C20, amended: a synthesis call follows a gateway call exactly when the
\* gateway answered 200 with a body that decodes as JSON, and then there is
\* exactly one, for the same capability and message.
C20_SynthesisIff200Json ==
  /\ \A k \in DOMAIN returns :
       (calls[k].svc = "gateway" /\ returns[k].t = "response")
         => ((returns[k].status_code = 200 /\ returns[k].json)
               <=> (Len(calls) > k /\ IsSynthesis(calls[k + 1])))
  /\ \A j \in DOMAIN calls :
       IsSynthesis(calls[j])
         => /\ j > 1
            /\ calls[j - 1].svc = "gateway"
            /\ returns[j - 1].t = "response"
            /\ returns[j - 1].status_code = 200
            /\ returns[j - 1].json
            /\ calls[j] = SynthRequest(calls[j].endpoint, user_message, returns[j - 1].text)

C20_Witness ==
  /\ Done200
  /\ Len(GatewayCalls) = 2
  /\ Len(SynthesisCalls) = 1
  /\ returns[3].status_code = 404
  /\ returns[4].status_code = 200
  /\ IsSynthesis(calls[5])

\* C21 as stated: a 200 reply of a turn with n invocations consists of n
\* segments, one per invocation, each the text of that invocation verbatim,
\* the empty text included.
C21_OneSegmentPerInvocation ==
  (Done200 /\ ToolTurn /\ \A k \in DOMAIN TurnSegments : TurnSegments[k].t = "str")
    => /\ Len(replies) = Len(msg.tool_calls)
       /\ \A k \in DOMAIN replies : replies[k] = TurnSegments[k].v

\* C21, amended: every one of the n invocations yields one segment, the
\* synthesizer's text, the failure text or the unknown-capability text
\* verbatim, and the reply consists of the non-empty ones in emitted order;
\* an empty or None segment is left out.
C21_NonEmptySegmentsVerbatim ==
  (Done200 /\ ToolTurn)
    => /\ Len(segments) = Len(msg.tool_calls)
       /\ \A k \in DOMAIN segments : segments[k].reply = TurnSegments[k]
       /\ replies = Texts(SelectSeq(TurnSegments, Truthy))
       /\ Len(replies) <= Len(msg.tool_calls)

C21_Witness ==
  /\ Done200
  /\ ToolTurn
  /\ Len(msg.tool_calls) = 2
  /\ TurnSegments = <<Str(""), Str("S1")>>
  /\ replies = <<"S1">>
  /\ response.value = Str("S1")

\* the handler is blocked in an external call
Blocked ==
  pc \in {"verify_id_token", "intent", "gateway", "synthesis"}

\* C22: the invocations are processed one after the other in emitted order:
\* a call is issued only when every earlier call of the request has
\* returned, so at most one external call is in flight.
C22_StrictlySequential ==
  /\ Len(calls) - Len(returns) \in {0, 1}
  /\ Blocked <=> Len(calls) = Len(returns) + 1
  /\ ToolTurn =>
       /\ Len(GatewayCalls) <= Len(KnownCalls)
       /\ \A k \in 1..Len(GatewayCalls) :
            GatewayCalls[k].url = GatewayBase \o BaseUrl(KnownCalls[k].name)
       /\ idx > 0 => /\ msg.tool_calls[idx].name \in ToolNames
                     /\ Len(GatewayCalls)
                          = Len(SelectSeq(SubSeq(msg.tool_calls, 1, idx),
                                          LAMBDA c : c.name \in ToolNames))
                     /\ Len(segments) \in {idx - 1, idx}

C22_Witness ==
  /\ pc = "gateway"
  /\ Len(GatewayCalls) = 2
  /\ Len(SynthesisCalls) = 1
  /\ Len(returns) = 4
  /\ Len(calls) = 5

\* a call outcome that makes the handler raise
Raises(call, outcome) ==
  \/ outcome.t = "raise"
  \/ call.svc = "gateway" /\ outcome.t = "response"
       /\ outcome.status_code = 200 /\ ~outcome.json

\* C23: nothing is retried: the identity provider and the intent resolution
\* are called at most once per request, every invocation leads to at most
\* one gateway call and one synthesis call, the gateway calls are never more
\* than the invocations (emitted or forced), and a failed call is the last
\* call of the request, which ends at once in its terminal status.
C23_NoRetries ==
  /\ Len(SelectSeq(calls, LAMBDA c : c.svc = "identity")) <= 1
  /\ Len(SelectSeq(calls, LAMBDA c : c.svc = "inference" /\ c.kind = "intent")) <= 1
  /\ Len(SynthesisCalls) <= Len(GatewayCalls)
  /\ msg.t = "message" =>
       Len(GatewayCalls) <= IF ToolTurn THEN Len(KnownCalls) ELSE 1
  /\ msg.t # "message" => Len(GatewayCalls) = 0
  /\ \A k \in DOMAIN returns :
       Raises(calls[k], returns[k])
         => /\ k = Len(returns)
            /\ Len(calls) = k
            /\ pc = "done"
            /\ response.status = IF calls[k].svc = "identity" THEN 401 ELSE 500

C23_Witness ==
  /\ pc = "done"
  /\ response.status = 500
  /\ ToolTurn
  /\ Len(msg.tool_calls) = 2
  /\ Len(KnownCalls) = 2
  /\ Len(GatewayCalls) = 1
  /\ returns[3].t = "raise"
  /\ Len(calls) = 3

\* C24: a transport failure of the inference service, in the intent
\* resolution or in a synthesis call, ends the request with status 500 and
\* an error body, also when earlier invocations were already synthesized.
C24_InferenceFailureIs500 ==
  \A k \in DOMAIN returns :
    (calls[k].svc = "inference" /\ returns[k].t = "raise")
      => /\ pc = "done"
         /\ response = Resp(500, "error", Str(returns[k].e))
         /\ response.key # "reply"
         /\ k = Len(calls)

C24_Witness ==
  /\ pc = "done"
  /\ Len(segments) = 1
  /\ segments[1].reply = Str("S1")
  /\ replies = <<"S1">>
  /\ IsSynthesis(calls[Len(calls)])
  /\ returns[Len(returns)].t = "raise"
  /\ response.status = 500

\* the number of gateway calls among the first n calls
GatewayCallsUpTo(n) ==
  Len(SelectSeq(SubSeq(calls, 1, n), LAMBDA c : c.svc = "gateway"))

\* C25: the synthesis call of an invocation is made of the name of that
\* invocation, the original user message and the payload of that
\* invocation's own gateway response, and of nothing else: no argument,
\* result or segment of another invocation enters it.
C25_SynthesisInputsAreOwn ==
  ToolTurn =>
    \A p \in DOMAIN calls :
      IsSynthesis(calls[p])
        => /\ calls[p - 1].svc = "gateway"
           /\ returns[p - 1].t = "response"
           /\ calls[p] = [svc |-> "inference", kind |-> "synthesis",
                          endpoint |-> KnownCalls[GatewayCallsUpTo(p)].name,
                          user |-> data.message.v,
                          data |-> returns[p - 1].text]

C25_Witness ==
  /\ ToolTurn
  /\ Len(SynthesisCalls) = 2
  /\ replies = <<"S1">>
  /\ msg.tool_calls = << [name |-> "listTeamMembers", arguments |-> GoodArgs],
                         [name |-> "getResult", arguments |-> BadArgs] >>
  /\ calls[Len(calls)].endpoint = "getResult"

\* The response of a request handled alone, as its body d and the outcomes
\* rets of its calls determine it.
SoloResponse(d, rets) ==
  IF d.t # "dict"
  THEN Resp(500, "error", Str("'NoneType' object has no attribute 'get'"))
  ELSE IF ~Truthy(d.message) \/ ~Truthy(d.token) \/ ~Truthy(d.email)
  THEN Resp(400, "error", Str("Missing required fields"))
  ELSE IF rets[1].t = "raise"
  THEN Resp(401, "error", Str("Invalid token"))
  ELSE IF rets[1].email # d.email
  THEN Resp(403, "error", Str("Email mismatch"))
  ELSE IF rets[2].t = "raise"
  THEN Resp(500, "error", Str(rets[2].e))
  ELSE IF rets[2].tool_calls = <<>>
  THEN IF TableChoice(d.message.v) # Unbound
       THEN Resp(500, "error", Str("UnboundLocalError: fn_args"))
       ELSE Resp(200, "reply", rets[2].content)
  ELSE LET last == rets[Len(rets)]
       IN  IF Len(rets) > 2 /\ last.t = "raise"
           THEN Resp(500, "error", Str(last.e))
           ELSE IF Len(rets) > 2 /\ last.t = "response"
                     /\ last.status_code = 200 /\ ~last.json
           THEN Resp(500, "error", Str("JSONDecodeError"))
           ELSE Resp(200, "reply",
                     Str(Join(Texts(SelectSeq(
                           SegmentsOf(rets[2].tool_calls, SubSeq(rets, 3, Len(rets))),
                           Truthy)))))

\* The calls and the response of the request with locals L are those of the
\* same request handled alone with the same call outcomes.
RunsAsAlone(L) ==
  /\ \A p \in DOMAIN L.calls :
       LET c == L.calls[p]
       IN  /\ p = 1 => c = [svc |-> "identity", token |-> L.data.token.v]
           /\ p = 2 => c = [svc |-> "inference", kind |-> "intent",
                            system |-> [user_email |-> L.data.email.v,
                                        id_token |-> L.data.token.v],
                            user |-> L.data.message.v, tools |-> TOOLS]
           /\ p > 2 =>
                LET known == SelectSeq(L.returns[2].tool_calls,
                                       LAMBDA tc : tc.name \in ToolNames)
                    k == Len(SelectSeq(SubSeq(L.calls, 1, p), LAMBDA x : x.svc = "gateway"))
                IN  IF c.svc = "gateway"
                    THEN /\ c.method = "GET"
                         /\ c.url = GatewayBase \o BaseUrl(known[k].name)
                         /\ c.authorization = "Bearer " \o L.data.token.v
                         /\ c.params = Params(known[k].name, ExpectedArgs(known[k].arguments))
                    ELSE c = [svc |-> "inference", kind |-> "synthesis",
                              endpoint |-> known[k].name, user |-> L.data.message.v,
                              data |-> L.returns[p - 1].text]
  /\ L.pc = "done" => L.response = SoloResponse(L.data, L.returns)

\* C26: when the steps of two requests are interleaved in any order, the
\* external calls of each request (arguments, bearer token, prompts) and its
\* response are those of the same request handled alone.
C26_InterleavingIsSolo ==
  /\ RunsAsAlone(Locals)
  /\ RunsAsAlone(saved)

C26_Witness ==
  /\ pc = "gateway"
  /\ saved.pc = "synthesis"
  /\ data.token = Str("tok-1")
  /\ saved.data.token = Str("tok-2")
  /\ Len(saved.segments) = 1
  /\ Len(calls) = 3

\* C27: the names of the catalog are the names the dispatch chain routes to
\* a gateway call: an emitted catalog capability leads to a gateway call and
\* never to the unknown-capability text, and a name outside the catalog
\* leads to that text and to no gateway call.
C27_CatalogIsDispatched ==
  /\ ToolNames = Dispatched
  /\ Cardinality(ToolNames) = Len(TOOLS)
  /\ ToolTurn =>
       /\ \A k \in DOMAIN segments :
            /\ segments[k].fn_name = msg.tool_calls[k].name
            /\ (segments[k].reply = Str("Unknown function call received."))
                 <=> segments[k].fn_name \notin ToolNames
       /\ pc \in {"gateway", "synthesis"} =>
            /\ frame.fn_name \in ToolNames
            /\ frame.fn_name = msg.tool_calls[idx].name
            /\ calls[Len(calls)].svc = "gateway"
                 => calls[Len(calls)].url = GatewayBase \o BaseUrl(frame.fn_name)
       /\ Done200 => Len(GatewayCalls) = Len(KnownCalls)

C27_Witness ==
  /\ ToolTurn
  /\ Done200
  /\ msg.tool_calls = << [name |-> "getResult", arguments |-> GoodArgs],
                         [name |-> UnknownName, arguments |-> GoodArgs] >>
  /\ Len(GatewayCalls) = 1
  /\ segments[1].reply = Str("S1")
  /\ segments[2].reply = Str("Unknown function call received.")

\* C28: no message sent to the inference service, in the intent resolution
\* or in a synthesis call, contains the session token.
C28_TokenNotSentToInference ==
  \A k \in DOMAIN calls :
    calls[k].svc = "inference"
      => IF calls[k].kind = "intent"
         THEN \A f \in DOMAIN calls[k].system : calls[k].system[f] # data.token.v
         ELSE calls[k].endpoint # data.token.v /\ calls[k].data # data.token.v

\* C29: once a gateway or inference call of a request has raised (transport
\* failure, inference failure, a 200 gateway body that is not JSON), it is
\* the last call of the request: the later invocations of the turn are not
\* invoked, no segment is made for the failing one, and the request ends
\* with 500.
C29_NothingAfterRaise ==
  \A k \in DOMAIN returns :
    (calls[k].svc \in {"gateway", "inference"} /\ Raises(calls[k], returns[k]))
      => /\ Len(calls) = k
         /\ Len(returns) = k
         /\ pc = "done"
         /\ response.status = 500
         /\ response.key = "error"
         /\ ToolTurn =>
              /\ idx >= 1
              /\ Len(segments) = idx - 1
              /\ Len(GatewayCalls)
                   = Len(SelectSeq(SubSeq(msg.tool_calls, 1, idx),
                                   LAMBDA c : c.name \in ToolNames))

C29_Witness ==
  /\ ToolTurn
  /\ pc = "done"
  /\ response = Resp(500, "error", Str("JSONDecodeError"))
  /\ Len(msg.tool_calls) = 2
  /\ Len(KnownCalls) = 2
  /\ idx = 1
  /\ Len(GatewayCalls) = 1
  /\ segments = <<>>

\* C30: every gateway call of a request carries as bearer credential the
\* token the identity provider verified for this request, the token of the
\* request body, the same for every invocation of the turn.
C30_BearerIsVerifiedToken ==
  \A k \in DOMAIN calls :
    calls[k].svc = "gateway"
      => /\ calls[1].svc = "identity"
         /\ returns[1].t = "decoded"
         /\ calls[1].token = data.token.v
         /\ calls[k].authorization = "Bearer " \o calls[1].token
         /\ \A j \in DOMAIN calls :
              calls[j].svc = "gateway" => calls[j].authorization = calls[k].authorization

C30_Witness ==
  /\ Len(GatewayCalls) = 2
  /\ calls[1] = [svc |-> "identity", token |-> "tok-2"]
  /\ GatewayCalls[1].authorization = "Bearer tok-2"
  /\ GatewayCalls[2].authorization = "Bearer tok-2"
====
